---- MODULE Spec2Model ----
(***************************************************************************)
(* The CascadeLang heap (src/src/runtime/heap.ts): the forward map of      *)
(* objects, the type registry, the reverse index of back-edges and the     *)
(* cascade-delete algorithm, driven by every sequence of calls of the      *)
(* heap's public methods, and the interpreter's object literals and        *)
(* property assignments (src/unnamed/part_000), which call them.           *)
(*                                                                         *)
(* Values.  The heap stores JavaScript values and tells an object          *)
(* identifier from a plain number only by asking whether the number is a   *)
(* key of the forward map.  A value of the model carries the number the    *)
(* code sees (n) and a tag the code never reads: "id" for a number that    *)
(* createObject/createArray returned, "num" for any other number, "null"   *)
(* for null and "undef" for undefined (an absent field); "bool" and        *)
(* "string" are the values of boolean and string literals.  Every          *)
(* operator that models code reads the tag only where the code uses        *)
(* typeof or === null / !== undefined, so that "id" and "num" are the same *)
(* to it; the properties read the tag to say what a reference is.          *)
(*                                                                         *)
(* Keys of the reverse index.  The code builds the key `${id}.${name}` and *)
(* takes it apart with split(".").  Field names here are identifiers and   *)
(* decimal indices (what the parser and the array operations produce), so  *)
(* the key is the pair <<id, name>>.                                       *)
(***************************************************************************)
EXTENDS Integers, Sequences, FiniteSets, TLC

\* ------------------------------------------------------------- bounds

\* Identifiers allocated in one run: nextId never exceeds MaxObjects + 1.
MaxObjects == 3

\* Heap calls in one run.  defineType is not counted: the schemas it is given
\* are finitely many.
MaxOps == 4

\* Largest array length array_push is applied to.
MaxLen == 1

\* Scopes open at once: the global scope and the blocks entered.
MaxDepth == 2

\* Largest index of an indexed write or read.
MaxIndex == 2

\* ------------------------------------------------------------- values

Null == [tag |-> "null", n |-> 0]
Undefined == [tag |-> "undef", n |-> 0]
Id(k) == [tag |-> "id", n |-> k]
Num(k) == [tag |-> "num", n |-> k]

\* the values of the literals true and "s": neither is a number
BoolLit == [tag |-> "bool", n |-> 1]
StringLit == [tag |-> "string", n |-> 0]

\* typeof v === "number"
IsNumber(v) == v.tag \in {"id", "num"}

\* Number(v) for a number or null: Number(null) = 0
ToNumber(v) == v.n

\* typeName === undefined (createObject called without a type name)
NoType == ""
ArrayType == "__array__"

\* ------------------------------------------------------------- maps

\* new Map()
EmptyMap == [x \in {} |-> Null]

\* Map.set(k, v)
MapSet(m, k, v) == (k :> v) @@ m

\* Map.delete(k)
MapDelete(m, k) == [x \in (DOMAIN m) \ {k} |-> m[x]]

\* Map.get(k) on a map of values: undefined when k is absent
MapGet(m, k) == IF k \in DOMAIN m THEN m[k] ELSE Undefined

\* A JavaScript Set, kept in insertion order: Set.add
SetAdd(s, x) == IF \E i \in 1..Len(s) : s[i] = x THEN s ELSE Append(s, x)

\* Set.delete
SetDelete(s, x) == SelectSeq(s, LAMBDA y : y # x)

\* `${id}.${name}`
ParentKey(id, name) == <<id, name>>

\* const [pidStr, fieldName] = parentKey.split("."); pid = Number(pidStr)
SplitKey(parentKey) == [pid |-> parentKey[1], fieldName |-> parentKey[2]]

\* ------------------------------------------------------------- state

VARIABLES
  nextId,     \* Heap.nextId
  objects,    \* Heap.objects: id -> [typeName, fields]
  types,      \* Heap.types: type name -> its field specs, in order
  incoming,   \* Heap.incoming: child id -> parent keys, in insertion order
  last,       \* the call that produced this state
  pre,        \* the forward map and the reverse index when that call began
  error,      \* the message of the Error that call threw, "" if it returned
  env,        \* Interpreter.env: the scopes, globals first, each name -> value
  nops        \* calls made so far, defineType apart

vars == <<nextId, objects, types, incoming, last, pre, error, env, nops>>

\* ------------------------------------------------------------- reverse index

\* this.objects.has(value), after typeof value === "number"
IsLiveNumber(objs, value) == IsNumber(value) /\ value.n \in DOMAIN objs

TrackIncomingIfObject(objs, inc, value, parentKey) ==
  IF IsLiveNumber(objs, value)
  THEN LET set == IF value.n \in DOMAIN inc THEN inc[value.n] ELSE <<>>
       IN MapSet(inc, value.n, SetAdd(set, parentKey))
  ELSE inc

UntrackIncomingIfObject(objs, inc, value, parentKey) ==
  IF IsLiveNumber(objs, value) /\ value.n \in DOMAIN inc
  THEN LET set == SetDelete(inc[value.n], parentKey)
       IN IF Len(set) = 0 THEN MapDelete(inc, value.n)
                          ELSE MapSet(inc, value.n, set)
  ELSE inc

\* ------------------------------------------------------------- type registry

\* spec.fields.find(f => f.name === fieldName): the first field of that name
FindField(fields, fieldName) ==
  LET hits == SelectSeq(fields, LAMBDA f : f.name = fieldName)
  IN IF Len(hits) = 0 THEN <<>> ELSE <<hits[1]>>

\* Mutant of IsFieldMandatory: the optional flag read the wrong way round
IsFieldMandatoryInverted(typs, typeName, fieldName) ==
  IF typeName = NoType THEN FALSE
  ELSE IF typeName \notin DOMAIN typs THEN FALSE
  ELSE LET field == FindField(typs[typeName], fieldName)
       IN IF field = <<>> THEN FALSE ELSE field[1].optional

\* Mutant of IsFieldMandatory: only the first field of the schema is looked at
IsFieldMandatoryFirstOnly(typs, typeName, fieldName) ==
  IF typeName = NoType THEN FALSE
  ELSE IF typeName \notin DOMAIN typs THEN FALSE
  ELSE IF Len(typs[typeName]) = 0 \/ typs[typeName][1].name # fieldName THEN FALSE
  ELSE ~typs[typeName][1].optional

IsFieldMandatory(typs, typeName, fieldName) ==
  IF typeName = NoType THEN FALSE
  ELSE IF typeName \notin DOMAIN typs THEN FALSE
  ELSE LET field == FindField(typs[typeName], fieldName)
       IN IF field = <<>> THEN FALSE ELSE ~field[1].optional

\* ------------------------------------------------------------- allocation

\* for (const [key, val] of obj.fields) this.trackIncomingIfObject(val, `${id}.${key}`)
RECURSIVE TrackEntries(_, _, _, _, _)
TrackEntries(objs, inc, id, entries, i) ==
  IF i > Len(entries) THEN inc
  ELSE TrackEntries(objs,
                    TrackIncomingIfObject(objs, inc, objs[id].fields[entries[i][1]],
                                          ParentKey(id, entries[i][1])),
                    id, entries, i + 1)

\* fields.set(k, v) for every entry of initial, in order
RECURSIVE FieldsOf(_, _)
FieldsOf(entries, i) ==
  IF i = 0 THEN EmptyMap
  ELSE MapSet(FieldsOf(entries, i - 1), entries[i][1], entries[i][2])

\* Mutant of CreateObject: the smallest identifier that names no live object
\* is handed out, so that the identifier of a deleted object comes back
CreateObjectReusingDead(h, typeName, initial) ==
  LET id == CHOOSE k \in 1..h.nextId :
              k \notin DOMAIN h.objects /\ \A j \in 1..(k - 1) : j \in DOMAIN h.objects
      obj == [typeName |-> typeName, fields |-> FieldsOf(initial, Len(initial))]
      objs == MapSet(h.objects, id, obj)
  IN [nextId |-> IF id = h.nextId THEN h.nextId + 1 ELSE h.nextId,
      objects |-> objs,
      incoming |-> TrackEntries(objs, h.incoming, id, initial, 1),
      id |-> id]

\* Mutant of CreateObject: an initial field given as null is left out
CreateObjectSkipsNull(h, typeName, initial) ==
  LET id == h.nextId
      kept == SelectSeq(initial, LAMBDA e : e[2] # Null)
      obj == [typeName |-> typeName, fields |-> FieldsOf(kept, Len(kept))]
      objs == MapSet(h.objects, id, obj)
  IN [nextId |-> h.nextId + 1,
      objects |-> objs,
      incoming |-> TrackEntries(objs, h.incoming, id, kept, 1),
      id |-> id]

\* Heap.createObject(typeName, initial): initial is Object.entries(initial),
\* a sequence of <<key, value>> with distinct keys.  The heap is the record
\* [nextId, objects, incoming]; the result adds the identifier returned.
CreateObject(h, typeName, initial) ==
  LET id == h.nextId
      obj == [typeName |-> typeName, fields |-> FieldsOf(initial, Len(initial))]
      objs == MapSet(h.objects, id, obj)
  IN [nextId |-> h.nextId + 1,
      objects |-> objs,
      incoming |-> TrackEntries(objs, h.incoming, id, initial, 1),
      id |-> id]

\* the loop of Heap.createArray over elements[i]
RECURSIVE ArrayElements(_, _, _, _, _)
ArrayElements(objs, inc, id, elements, i) ==
  IF i >= Len(elements) THEN [objects |-> objs, incoming |-> inc]
  ELSE LET key == ToString(i)
           objs2 == [objs EXCEPT ![id].fields = MapSet(@, key, elements[i + 1])]
       IN ArrayElements(objs2,
                        TrackIncomingIfObject(objs2, inc, elements[i + 1], ParentKey(id, key)),
                        id, elements, i + 1)

\* Heap.createArray(elements)
CreateArray(h, elements) ==
  LET c == CreateObject(h, ArrayType, <<>>)
      e == ArrayElements(c.objects, c.incoming, c.id, elements, 0)
  IN [nextId |-> c.nextId,
      objects |-> [e.objects EXCEPT ![c.id].fields = MapSet(@, "length", Num(Len(elements)))],
      incoming |-> e.incoming,
      id |-> c.id]

\* ------------------------------------------------------------- cascade

\* Mutant of ParentsLoop: the parent's field is nulled but a parent whose field
\* is mandatory is not pushed
RECURSIVE ParentsLoopNoPush(_, _, _, _, _, _)
ParentsLoopNoPush(objs, inc, typs, toDelete, keys, i) ==
  IF i > Len(keys) THEN [objects |-> objs, incoming |-> inc, toDelete |-> toDelete]
  ELSE LET pid == SplitKey(keys[i]).pid
           fieldName == SplitKey(keys[i]).fieldName
       IN IF pid \notin DOMAIN objs
          THEN ParentsLoopNoPush(objs, inc, typs, toDelete, keys, i + 1)
          ELSE LET prev == MapGet(objs[pid].fields, fieldName)
                   objs2 == [objs EXCEPT ![pid].fields = MapSet(@, fieldName, Null)]
               IN ParentsLoopNoPush(objs2, UntrackIncomingIfObject(objs2, inc, prev, keys[i]),
                                    typs, toDelete, keys, i + 1)

\* Mutant of ParentsLoop: every parent is pushed, whatever its schema says
RECURSIVE ParentsLoopPushAll(_, _, _, _, _, _)
ParentsLoopPushAll(objs, inc, typs, toDelete, keys, i) ==
  IF i > Len(keys) THEN [objects |-> objs, incoming |-> inc, toDelete |-> toDelete]
  ELSE LET pid == SplitKey(keys[i]).pid
           fieldName == SplitKey(keys[i]).fieldName
       IN IF pid \notin DOMAIN objs
          THEN ParentsLoopPushAll(objs, inc, typs, toDelete, keys, i + 1)
          ELSE LET prev == MapGet(objs[pid].fields, fieldName)
                   objs2 == [objs EXCEPT ![pid].fields = MapSet(@, fieldName, Null)]
               IN ParentsLoopPushAll(objs2, UntrackIncomingIfObject(objs2, inc, prev, keys[i]),
                                     typs, Append(toDelete, pid), keys, i + 1)

\* Mutant of ParentsLoop: only the parent of the first back-edge enumerated is
\* pushed
RECURSIVE ParentsLoopPushFirstOnly(_, _, _, _, _, _)
ParentsLoopPushFirstOnly(objs, inc, typs, toDelete, keys, i) ==
  IF i > Len(keys) THEN [objects |-> objs, incoming |-> inc, toDelete |-> toDelete]
  ELSE LET pid == SplitKey(keys[i]).pid
           fieldName == SplitKey(keys[i]).fieldName
       IN IF pid \notin DOMAIN objs
          THEN ParentsLoopPushFirstOnly(objs, inc, typs, toDelete, keys, i + 1)
          ELSE LET parent == objs[pid]
                   prev == MapGet(parent.fields, fieldName)
                   objs2 == [objs EXCEPT ![pid].fields = MapSet(@, fieldName, Null)]
                   inc2 == UntrackIncomingIfObject(objs2, inc, prev, keys[i])
                   isMandatory == IsFieldMandatory(typs, parent.typeName, fieldName)
               IN ParentsLoopPushFirstOnly(objs2, inc2, typs,
                                           IF isMandatory /\ i = 1 THEN Append(toDelete, pid)
                                                                   ELSE toDelete,
                                           keys, i + 1)

\* Mutant of ParentsLoop: a parent whose field is mandatory is pushed twice
RECURSIVE ParentsLoopPushTwice(_, _, _, _, _, _)
ParentsLoopPushTwice(objs, inc, typs, toDelete, keys, i) ==
  IF i > Len(keys) THEN [objects |-> objs, incoming |-> inc, toDelete |-> toDelete]
  ELSE LET pid == SplitKey(keys[i]).pid
           fieldName == SplitKey(keys[i]).fieldName
       IN IF pid \notin DOMAIN objs
          THEN ParentsLoopPushTwice(objs, inc, typs, toDelete, keys, i + 1)
          ELSE LET parent == objs[pid]
                   prev == MapGet(parent.fields, fieldName)
                   objs2 == [objs EXCEPT ![pid].fields = MapSet(@, fieldName, Null)]
                   inc2 == UntrackIncomingIfObject(objs2, inc, prev, keys[i])
                   isMandatory == IsFieldMandatory(typs, parent.typeName, fieldName)
               IN ParentsLoopPushTwice(objs2, inc2, typs,
                                       IF isMandatory THEN toDelete \o <<pid, pid>> ELSE toDelete,
                                       keys, i + 1)

\* The for-of loop over the back-edges of cur (heap.ts:116-128).  keys is the
\* set being enumerated: the loop deletes from it only the key it is at, so it
\* visits the keys the set held when the loop began, in insertion order.
RECURSIVE ParentsLoop(_, _, _, _, _, _)
ParentsLoop(objs, inc, typs, toDelete, keys, i) ==
  IF i > Len(keys) THEN [objects |-> objs, incoming |-> inc, toDelete |-> toDelete]
  ELSE LET pid == SplitKey(keys[i]).pid
           fieldName == SplitKey(keys[i]).fieldName
       IN IF pid \notin DOMAIN objs
          THEN ParentsLoop(objs, inc, typs, toDelete, keys, i + 1)
          ELSE LET parent == objs[pid]
                   prev == MapGet(parent.fields, fieldName)
                   objs2 == [objs EXCEPT ![pid].fields = MapSet(@, fieldName, Null)]
                   inc2 == UntrackIncomingIfObject(objs2, inc, prev, keys[i])
                   isMandatory == IsFieldMandatory(typs, parent.typeName, fieldName)
               IN ParentsLoop(objs2, inc2, typs,
                              IF isMandatory THEN Append(toDelete, pid) ELSE toDelete,
                              keys, i + 1)

\* for (const [k, v] of obj.fields) this.untrackIncomingIfObject(v, `${cur}.${k}`)
\* Each step removes one key from one set, so the order of the fields does
\* not change the result.
RECURSIVE UntrackFields(_, _, _, _, _)
UntrackFields(objs, inc, cur, fields, names) ==
  IF names = {} THEN inc
  ELSE LET k == CHOOSE x \in names : TRUE
       IN UntrackFields(objs,
                        UntrackIncomingIfObject(objs, inc, fields[k], ParentKey(cur, k)),
                        cur, fields, names \ {k})

RECURSIVE CascadeLoop(_, _, _, _, _, _)

\* Mutant of CascadeLoop: the parents pushed for the root are destroyed, but
\* their own back-edges are not followed
CascadeLoopShallow(objs, inc, typs, toDelete, visited, processed) ==
  IF Len(toDelete) = 0
  THEN [objects |-> objs, incoming |-> inc, processed |-> processed, pops |-> 0]
  ELSE LET cur == toDelete[Len(toDelete)]
           rest == SubSeq(toDelete, 1, Len(toDelete) - 1)
       IN IF cur \in visited
          THEN CascadeLoop(objs, inc, typs, rest, visited, processed)
          ELSE IF cur \notin DOMAIN objs
          THEN CascadeLoop(objs, inc, typs, rest, visited \cup {cur}, processed)
          ELSE LET p == ParentsLoop(objs, inc, typs, rest,
                                    IF cur \in DOMAIN inc THEN inc[cur] ELSE <<>>, 1)
                   fields == p.objects[cur].fields
                   inc2 == UntrackFields(p.objects, p.incoming, cur, fields, DOMAIN fields)
               IN CascadeLoop(MapDelete(p.objects, cur), MapDelete(inc2, cur), typs,
                              IF Len(processed) = 0 THEN p.toDelete ELSE rest,
                              visited \cup {cur}, Append(processed, cur))

\* The while loop of Heap.deleteObjectCascade: toDelete is the work stack
\* (pop takes its last element), processed lists the objects destroyed, in
\* order, and pops counts the iterations of the loop.
CascadeLoop(objs, inc, typs, toDelete, visited, processed) ==
  IF Len(toDelete) = 0
  THEN [objects |-> objs, incoming |-> inc, processed |-> processed, pops |-> 0]
  ELSE LET cur == toDelete[Len(toDelete)]
           rest == SubSeq(toDelete, 1, Len(toDelete) - 1)
           r == IF cur \in visited
                THEN CascadeLoop(objs, inc, typs, rest, visited, processed)
                ELSE IF cur \notin DOMAIN objs
                THEN CascadeLoop(objs, inc, typs, rest, visited \cup {cur}, processed)
                ELSE LET p == ParentsLoop(objs, inc, typs, rest,
                                          IF cur \in DOMAIN inc THEN inc[cur] ELSE <<>>, 1)
                         fields == p.objects[cur].fields
                         inc2 == UntrackFields(p.objects, p.incoming, cur, fields, DOMAIN fields)
                     IN CascadeLoop(MapDelete(p.objects, cur), MapDelete(inc2, cur), typs,
                                    p.toDelete, visited \cup {cur}, Append(processed, cur))
       IN [r EXCEPT !.pops = @ + 1]

\* Heap.deleteObjectCascade(id)
DeleteObjectCascade(h, typs, id) ==
  LET r == CascadeLoop(h.objects, h.incoming, typs, <<id>>, {}, <<>>)
  IN [nextId |-> h.nextId, objects |-> r.objects, incoming |-> r.incoming,
      processed |-> r.processed, pops |-> r.pops]

\* The sequences that list the elements of keys in some order
Perms(keys) ==
  {[i \in 1..Len(keys) |-> keys[g[i]]] :
     g \in {f \in [1..Len(keys) -> 1..Len(keys)] :
              \A a, b \in 1..Len(keys) : a # b => f[a] # f[b]}}

\* s without its j-th element
RemoveAt(s, j) == SubSeq(s, 1, j - 1) \o SubSeq(s, j + 1, Len(s))

\* The reverse index as a map from child to the set of its back-edges
ReverseIndexSets(inc) == [c \in DOMAIN inc |-> {inc[c][i] : i \in 1..Len(inc[c])}]

RECURSIVE AnyOrderCascade(_, _, _, _, _)

\* Lines 130-133 of Heap.deleteObjectCascade for cur, after the loop over its
\* back-edges returned p, and then the rest of the while loop
AnyOrderDestroy(p, typs, cur, visited) ==
  AnyOrderCascade(MapDelete(p.objects, cur),
                  MapDelete(UntrackFields(p.objects, p.incoming, cur, p.objects[cur].fields,
                                          DOMAIN p.objects[cur].fields), cur),
                  typs, p.toDelete, visited \cup {cur})

\* One iteration of the while loop for cur, the back-edges of cur enumerated
\* in every order
AnyOrderStep(objs, inc, typs, cur, rest, visited) ==
  IF cur \in visited THEN AnyOrderCascade(objs, inc, typs, rest, visited)
  ELSE IF cur \notin DOMAIN objs
  THEN AnyOrderCascade(objs, inc, typs, rest, visited \cup {cur})
  ELSE UNION {AnyOrderDestroy(ParentsLoop(objs, inc, typs, rest, keys, 1), typs, cur, visited) :
                keys \in Perms(IF cur \in DOMAIN inc THEN inc[cur] ELSE <<>>)}

\* The while loop of Heap.deleteObjectCascade with the next object taken from
\* any place of the work stack and the back-edges enumerated in any order:
\* the set of the final forward maps and reverse indexes
AnyOrderCascade(objs, inc, typs, toDelete, visited) ==
  IF Len(toDelete) = 0
  THEN {[objects |-> objs, incoming |-> ReverseIndexSets(inc)]}
  ELSE UNION {AnyOrderStep(objs, inc, typs, toDelete[j], RemoveAt(toDelete, j), visited) :
                j \in 1..Len(toDelete)}

\* ------------------------------------------------------------- writes

\* Mutant of SetField: the null is installed in a mandatory field, no cascade
SetFieldInstallsNull(h, typs, parentId, name, value, isMandatory) ==
  IF parentId \notin DOMAIN h.objects
  THEN [nextId |-> h.nextId, objects |-> h.objects, incoming |-> h.incoming,
        processed |-> <<>>]
  ELSE LET key == ParentKey(parentId, name)
           prev == MapGet(h.objects[parentId].fields, name)
           inc1 == IF prev # Undefined
                   THEN UntrackIncomingIfObject(h.objects, h.incoming, prev, key)
                   ELSE h.incoming
           objs2 == [h.objects EXCEPT ![parentId].fields = MapSet(@, name, value)]
       IN [nextId |-> h.nextId,
           objects |-> objs2,
           incoming |-> TrackIncomingIfObject(objs2, inc1, value, key),
           processed |-> <<>>]

\* Mutant of SetField: a null cascades whatever isMandatory says
SetFieldAlwaysCascade(h, typs, parentId, name, value, isMandatory) ==
  IF parentId \notin DOMAIN h.objects
  THEN [nextId |-> h.nextId, objects |-> h.objects, incoming |-> h.incoming,
        processed |-> <<>>]
  ELSE LET key == ParentKey(parentId, name)
           prev == MapGet(h.objects[parentId].fields, name)
           inc1 == IF prev # Undefined
                   THEN UntrackIncomingIfObject(h.objects, h.incoming, prev, key)
                   ELSE h.incoming
       IN IF value = Null
          THEN DeleteObjectCascade([h EXCEPT !.incoming = inc1], typs, parentId)
          ELSE LET objs2 == [h.objects EXCEPT ![parentId].fields = MapSet(@, name, value)]
               IN [nextId |-> h.nextId,
                   objects |-> objs2,
                   incoming |-> TrackIncomingIfObject(objs2, inc1, value, key),
                   processed |-> <<>>]

\* Mutant of SetField: a write to an identifier that names no live object
\* makes an untyped object of that identifier
SetFieldRevivesParent(h, typs, parentId, name, value, isMandatory) ==
  IF parentId \notin DOMAIN h.objects
  THEN LET objs2 == MapSet(h.objects, parentId,
                           [typeName |-> NoType, fields |-> MapSet(EmptyMap, name, value)])
       IN [nextId |-> h.nextId, objects |-> objs2,
           incoming |-> TrackIncomingIfObject(objs2, h.incoming, value, ParentKey(parentId, name)),
           processed |-> <<>>]
  ELSE LET key == ParentKey(parentId, name)
           prev == MapGet(h.objects[parentId].fields, name)
           inc1 == IF prev # Undefined
                   THEN UntrackIncomingIfObject(h.objects, h.incoming, prev, key)
                   ELSE h.incoming
       IN IF value = Null /\ isMandatory
          THEN DeleteObjectCascade([h EXCEPT !.incoming = inc1], typs, parentId)
          ELSE LET objs2 == [h.objects EXCEPT ![parentId].fields = MapSet(@, name, value)]
               IN [nextId |-> h.nextId,
                   objects |-> objs2,
                   incoming |-> TrackIncomingIfObject(objs2, inc1, value, key),
                   processed |-> <<>>]

\* Mutant of SetField: an object that loses its last back-edge by the
\* overwrite is destroyed
SetFieldCollectsUnreferenced(h, typs, parentId, name, value, isMandatory) ==
  IF parentId \notin DOMAIN h.objects
  THEN [nextId |-> h.nextId, objects |-> h.objects, incoming |-> h.incoming,
        processed |-> <<>>]
  ELSE LET key == ParentKey(parentId, name)
           prev == MapGet(h.objects[parentId].fields, name)
           inc1 == IF prev # Undefined
                   THEN UntrackIncomingIfObject(h.objects, h.incoming, prev, key)
                   ELSE h.incoming
       IN IF value = Null /\ isMandatory
          THEN DeleteObjectCascade([h EXCEPT !.incoming = inc1], typs, parentId)
          ELSE LET objs2 == [h.objects EXCEPT ![parentId].fields = MapSet(@, name, value)]
                   inc2 == TrackIncomingIfObject(objs2, inc1, value, key)
               IN [nextId |-> h.nextId,
                   objects |-> IF IsLiveNumber(objs2, prev) /\ prev.n \notin DOMAIN inc2
                               THEN MapDelete(objs2, prev.n) ELSE objs2,
                   incoming |-> inc2,
                   processed |-> <<>>]

\* Heap.getObject(id): the record in a one-element sequence, <<>> for undefined
GetObject(h, id) == IF id \in DOMAIN h.objects THEN <<h.objects[id]>> ELSE <<>>

\* Heap.getField(id, name)
GetField(h, id, name) ==
  IF id \in DOMAIN h.objects THEN MapGet(h.objects[id].fields, name) ELSE Undefined

\* Heap.setField(parentId, name, value, isMandatory)
SetField(h, typs, parentId, name, value, isMandatory) ==
  IF parentId \notin DOMAIN h.objects
  THEN [nextId |-> h.nextId, objects |-> h.objects, incoming |-> h.incoming,
        processed |-> <<>>]
  ELSE LET key == ParentKey(parentId, name)
           prev == MapGet(h.objects[parentId].fields, name)
           inc1 == IF prev # Undefined
                   THEN UntrackIncomingIfObject(h.objects, h.incoming, prev, key)
                   ELSE h.incoming
       IN IF value = Null /\ isMandatory
          THEN DeleteObjectCascade([h EXCEPT !.incoming = inc1], typs, parentId)
          ELSE LET objs2 == [h.objects EXCEPT ![parentId].fields = MapSet(@, name, value)]
               IN [nextId |-> h.nextId,
                   objects |-> objs2,
                   incoming |-> TrackIncomingIfObject(objs2, inc1, value, key),
                   processed |-> <<>>]

\* Mutant of ArrayPush: the value is stored but its back-edge is not recorded
ArrayPushNoTrack(h, id, value) ==
  IF id \notin DOMAIN h.objects \/ h.objects[id].typeName # ArrayType
  THEN [nextId |-> h.nextId, objects |-> h.objects, incoming |-> h.incoming]
  ELSE LET length == MapGet(h.objects[id].fields, "length")
           len == IF length \in {Undefined, Null} THEN 0 ELSE ToNumber(length)
           key == ToString(len)
       IN [nextId |-> h.nextId,
           objects |-> [h.objects EXCEPT ![id].fields =
                          MapSet(MapSet(@, key, value), "length", Num(len + 1))],
           incoming |-> h.incoming]

\* Heap.arrayPush(id, value)
ArrayPush(h, id, value) ==
  IF id \notin DOMAIN h.objects \/ h.objects[id].typeName # ArrayType
  THEN [nextId |-> h.nextId, objects |-> h.objects, incoming |-> h.incoming]
  ELSE LET length == MapGet(h.objects[id].fields, "length")
           len == IF length \in {Undefined, Null} THEN 0 ELSE ToNumber(length)
           key == ToString(len)
           objs2 == [h.objects EXCEPT ![id].fields =
                       MapSet(MapSet(@, key, value), "length", Num(len + 1))]
       IN [nextId |-> h.nextId,
           objects |-> objs2,
           incoming |-> TrackIncomingIfObject(objs2, h.incoming, value, ParentKey(id, key))]

\* Mutant of DefineType: a name already registered keeps its first schema
DefineTypeKeepsFirst(typs, spec) ==
  IF spec.name \in DOMAIN typs THEN typs ELSE MapSet(typs, spec.name, spec.fields)

\* Heap.defineType(spec)
DefineType(typs, spec) == MapSet(typs, spec.name, spec.fields)

\* ------------------------------------------------------------- interpreter

\* the call returned: no Error was thrown
NoError == ""

\* the heap a heap operation leaves
HeapOf(r) == [nextId |-> r.nextId, objects |-> r.objects, incoming |-> r.incoming]

\* what assignTo leaves: the heap r and the message of the Error thrown
Returned(r, message) ==
  [nextId |-> r.nextId, objects |-> r.objects, incoming |-> r.incoming, error |-> message]

\* Mutant of AssignTo: set_field is told the field is mandatory, whatever the
\* registry says
AssignToAlwaysMandatory(h, typs, baseVal, prop, value) ==
  IF ~IsNumber(baseVal) THEN Returned(h, "Property access on non-object")
  ELSE IF baseVal.n \notin DOMAIN h.objects THEN Returned(h, NoError)
  ELSE Returned(SetField(h, typs, baseVal.n, prop, value, TRUE), NoError)

\* Interpreter.assignTo, target an AccessExpr `base.prop = value`: baseVal is
\* the value of base, already evaluated.  The result is the heap and the
\* message of the Error thrown, if any.
AssignTo(h, typs, baseVal, prop, value) ==
  IF ~IsNumber(baseVal) THEN Returned(h, "Property access on non-object")
  ELSE IF baseVal.n \notin DOMAIN h.objects THEN Returned(h, NoError)
  ELSE Returned(SetField(h, typs, baseVal.n, prop, value,
                         IsFieldMandatory(typs, h.objects[baseVal.n].typeName, prop)),
                NoError)

\* the loop of Interpreter.evalObject over expr.props, a sequence of
\* <<key, value>> whose values are already evaluated
RECURSIVE EvalProps(_, _, _, _, _)
EvalProps(h, typs, id, props, i) ==
  IF i > Len(props) THEN h
  ELSE IF id \notin DOMAIN h.objects THEN EvalProps(h, typs, id, props, i + 1)
  ELSE EvalProps(HeapOf(SetField(h, typs, id, props[i][1], props[i][2],
                                 IsFieldMandatory(typs, h.objects[id].typeName, props[i][1]))),
                 typs, id, props, i + 1)

\* Interpreter.evalObject: the object literal `new T { props }` or `{ props }`
\* The result is the heap; the identifier returned is the nextId it began with.
EvalObject(h, typs, typeName, props) ==
  EvalProps(HeapOf(CreateObject(h, typeName, <<>>)), typs, h.nextId, props, 1)

\* Environment.get(name) on the scope chain scopes[1..d], innermost scopes[d]:
\* the entry in a one-element sequence, <<>> for undefined
RECURSIVE EnvGet(_, _, _)
EnvGet(scopes, d, name) ==
  IF d = 0 THEN <<>>
  ELSE IF name \in DOMAIN scopes[d] THEN <<scopes[d][name]>>
  ELSE EnvGet(scopes, d - 1, name)

\* Environment.setLocal(name, value) in the innermost scope
EnvSetLocal(scopes, name, value) ==
  [scopes EXCEPT ![Len(scopes)] = MapSet(@, name, value)]

\* Environment.set(name, value) called on scopes[d]: the nearest scope that
\* has the name, the global scope if none has
RECURSIVE EnvSet(_, _, _, _)
EnvSet(scopes, d, name, value) ==
  IF name \in DOMAIN scopes[d] \/ d = 1
  THEN [scopes EXCEPT ![d] = MapSet(@, name, value)]
  ELSE EnvSet(scopes, d - 1, name, value)

\* Mutant of AssignToIdent: rebinding a variable to null deletes the object
\* the variable named
AssignToIdentReleasing(h, typs, scopes, name, value) ==
  IF /\ value = Null
     /\ EnvGet(scopes, Len(scopes), name) # <<>>
     /\ IsLiveNumber(h.objects, EnvGet(scopes, Len(scopes), name)[1])
  THEN [heap |-> HeapOf(DeleteObjectCascade(h, typs, EnvGet(scopes, Len(scopes), name)[1].n)),
        env |-> EnvSet(scopes, Len(scopes), name, value)]
  ELSE [heap |-> h, env |-> EnvSet(scopes, Len(scopes), name, value)]

\* Interpreter.assignTo, target an IdentTarget `name = value`
AssignToIdent(h, typs, scopes, name, value) ==
  [heap |-> h, env |-> EnvSet(scopes, Len(scopes), name, value)]

\* Interpreter.evalAccess, `base.prop` with base already evaluated: the value
\* and the message of the Error thrown, if any
EvalAccess(h, base, prop) ==
  IF ~IsNumber(base)
  THEN [value |-> Undefined, error |-> "Property access on non-object"]
  ELSE [value |-> IF GetField(h, base.n, prop) \in {Undefined, Null}
                  THEN Null ELSE GetField(h, base.n, prop),
        error |-> NoError]

\* Mutant of AssignIndex: length is set to idx + 1 by every indexed write
AssignIndexSetsLength(h, baseVal, idx, value) ==
  IF ~IsNumber(baseVal) THEN Returned(h, "Indexing non-array")
  ELSE IF baseVal.n \notin DOMAIN h.objects THEN Returned(h, "Indexing non-array")
  ELSE IF h.objects[baseVal.n].typeName # ArrayType THEN Returned(h, "Indexing non-array")
  ELSE Returned([h EXCEPT !.objects[baseVal.n].fields =
                   MapSet(MapSet(@, ToString(idx), value), "length", Num(idx + 1))],
                NoError)

\* Interpreter.assignTo, target an IndexExpr `base[idx] = value`, base and idx
\* already evaluated, idx a non-negative integer.  The write goes to the
\* fields of the record, not through the heap: the reverse index is not read
\* or written.
AssignIndex(h, baseVal, idx, value) ==
  IF ~IsNumber(baseVal) THEN Returned(h, "Indexing non-array")
  ELSE IF baseVal.n \notin DOMAIN h.objects THEN Returned(h, "Indexing non-array")
  ELSE IF h.objects[baseVal.n].typeName # ArrayType THEN Returned(h, "Indexing non-array")
  ELSE Returned([h EXCEPT !.objects[baseVal.n].fields =
                   IF idx >= (IF MapGet(@, "length") \in {Undefined, Null}
                              THEN 0 ELSE ToNumber(MapGet(@, "length")))
                   THEN MapSet(MapSet(@, ToString(idx), value), "length", Num(idx + 1))
                   ELSE MapSet(@, ToString(idx), value)],
                NoError)

\* Interpreter.evalIndex, `base[idx]`: the value and the message of the Error
\* thrown, if any
EvalIndex(h, base, idx) ==
  IF ~IsNumber(base) THEN [value |-> Undefined, error |-> "Indexing non-array"]
  ELSE IF base.n \notin DOMAIN h.objects THEN [value |-> Undefined, error |-> "Indexing non-array"]
  ELSE IF h.objects[base.n].typeName # ArrayType
  THEN [value |-> Undefined, error |-> "Indexing non-array"]
  ELSE [value |-> IF MapGet(h.objects[base.n].fields, ToString(idx)) \in {Undefined, Null}
                  THEN Null ELSE MapGet(h.objects[base.n].fields, ToString(idx)),
        error |-> NoError]

\* ------------------------------------------------------------- inputs

FieldSpec(name, optional) == [name |-> name, optional |-> optional]
TypeSpec(name, fields) == [name |-> name, fields |-> fields]

\* struct N { mandatory a, optional b } and its redefinition
\* struct N { mandatory b }, which leaves a out
StructSchemas ==
  { TypeSpec("N", <<FieldSpec("a", FALSE), FieldSpec("b", TRUE)>>),
    TypeSpec("N", <<FieldSpec("b", FALSE)>>) }

\* a schema registered under the reserved type name of arrays
ArraySchemas == { TypeSpec(ArrayType, <<FieldSpec("0", FALSE)>>) }

\* Identifiers createObject and createArray have returned so far
Allocated == 1..(nextId - 1)

\* Values the calls are given: null and every identifier returned so far,
\* live or dead; setField is also given the plain number 1.
RefValues == {Null} \cup {Id(k) : k \in Allocated}
InputValues == RefValues \cup {Num(1)}

\* isMandatory of setField: the code reads it only when the value is null
Flags(value) == IF value = Null THEN BOOLEAN ELSE {FALSE}

\* initial of createObject: no entry, or one of the fields a and b
Initials == {<<>>} \cup {<< <<k, v>> >> : k \in {"a", "b"}, v \in RefValues}

\* elements of createArray: no element or one
ElementLists == {<<>>} \cup {<<v>> : v \in RefValues}

\* ------------------------------------------------------------- calls

Heap == [nextId |-> nextId, objects |-> objects, incoming |-> incoming]

\* A call: value is the value written, for create_object the initial fields
\* it was given, as a map, for define_type the fields of the schema, and for
\* is_field_mandatory the field name, with the type name in name and the
\* result in mand
Call(op, id, name, value, mand) ==
  [op |-> op, id |-> id, name |-> name, value |-> value, mand |-> mand]

Snapshot == [objects |-> objects, incoming |-> incoming, types |-> types, env |-> env]

\* A statement or expression on the value base: base is kept next to its number
CallOn(op, base, name, value) ==
  [op |-> op, id |-> ToNumber(base), name |-> name, value |-> value, mand |-> FALSE,
   base |-> base]

Init ==
  /\ nextId = 1
  /\ objects = EmptyMap
  /\ types = EmptyMap
  /\ incoming = EmptyMap
  /\ env = <<EmptyMap>>
  /\ last = Call("new", 0, "", Null, FALSE)
  /\ pre = Snapshot
  /\ error = NoError
  /\ nops = 0

DefineTypeCall(spec) ==
  /\ types' = DefineType(types, spec)
  /\ last' = Call("define_type", 0, spec.name, spec.fields, FALSE)
  /\ pre' = Snapshot
  /\ env' = env
  /\ error' = NoError
  /\ UNCHANGED <<nextId, objects, incoming, nops>>

CreateObjectCall(typeName, initial) ==
  /\ nops < MaxOps
  /\ nextId <= MaxObjects
  /\ LET r == CreateObject(Heap, typeName, initial)
     IN /\ nextId' = r.nextId
        /\ objects' = r.objects
        /\ incoming' = r.incoming
        /\ last' = Call("create_object", r.id, typeName, FieldsOf(initial, Len(initial)), FALSE)
  /\ pre' = Snapshot
  /\ env' = env
  /\ error' = NoError
  /\ nops' = nops + 1
  /\ UNCHANGED types

CreateArrayCall(elements) ==
  /\ nops < MaxOps
  /\ nextId <= MaxObjects
  /\ LET r == CreateArray(Heap, elements)
     IN /\ nextId' = r.nextId
        /\ objects' = r.objects
        /\ incoming' = r.incoming
        /\ last' = Call("create_array", r.id, "", Null, FALSE)
  /\ pre' = Snapshot
  /\ env' = env
  /\ error' = NoError
  /\ nops' = nops + 1
  /\ UNCHANGED types

SetFieldCall(parentId, name, value, isMandatory) ==
  /\ nops < MaxOps
  /\ LET r == SetField(Heap, types, parentId, name, value, isMandatory)
     IN /\ objects' = r.objects
        /\ incoming' = r.incoming
  /\ last' = Call("set_field", parentId, name, value, isMandatory)
  /\ pre' = Snapshot
  /\ env' = env
  /\ error' = NoError
  /\ nops' = nops + 1
  /\ UNCHANGED <<nextId, types>>

\* array_push is applied to arrays of length at most MaxLen
ArrayPushCall(id, value) ==
  /\ nops < MaxOps
  /\ id \in DOMAIN objects =>
       LET length == MapGet(objects[id].fields, "length")
       IN length = Undefined \/ ToNumber(length) <= MaxLen
  /\ LET r == ArrayPush(Heap, id, value)
     IN /\ objects' = r.objects
        /\ incoming' = r.incoming
  /\ last' = Call("array_push", id, "", value, FALSE)
  /\ pre' = Snapshot
  /\ env' = env
  /\ error' = NoError
  /\ nops' = nops + 1
  /\ UNCHANGED <<nextId, types>>

DeleteCascadeCall(id) ==
  /\ nops < MaxOps
  /\ LET r == DeleteObjectCascade(Heap, types, id)
     IN /\ objects' = r.objects
        /\ incoming' = r.incoming
  /\ last' = Call("delete_cascade", id, "", Null, FALSE)
  /\ pre' = Snapshot
  /\ env' = env
  /\ error' = NoError
  /\ nops' = nops + 1
  /\ UNCHANGED <<nextId, types>>

\* the statement `base.prop = value`
AssignCall(baseVal, prop, value) ==
  /\ nops < MaxOps
  /\ LET r == AssignTo(Heap, types, baseVal, prop, value)
     IN /\ objects' = r.objects
        /\ incoming' = r.incoming
        /\ error' = r.error
  /\ last' = CallOn("assign", baseVal, prop, value)
  /\ pre' = Snapshot
  /\ env' = env
  /\ nops' = nops + 1
  /\ UNCHANGED <<nextId, types>>

\* the expression `new T { props }`, or `{ props }` when typeName is NoType
EvalObjectCall(typeName, props) ==
  /\ nops < MaxOps
  /\ nextId <= MaxObjects
  /\ LET r == EvalObject(Heap, types, typeName, props)
     IN /\ nextId' = r.nextId
        /\ objects' = r.objects
        /\ incoming' = r.incoming
  /\ last' = Call("object_literal", nextId, typeName, Null, FALSE)
  /\ pre' = Snapshot
  /\ env' = env
  /\ error' = NoError
  /\ nops' = nops + 1
  /\ UNCHANGED types

\* Heap.getObject(id) and Heap.getField(id, name): value is what they return
GetObjectCall(id) ==
  /\ last' = Call("get_object", id, "", GetObject(Heap, id), FALSE)
  /\ pre' = Snapshot
  /\ env' = env
  /\ error' = NoError
  /\ UNCHANGED <<nextId, objects, types, incoming, nops>>

GetFieldCall(id, name) ==
  /\ last' = Call("get_field", id, name, GetField(Heap, id, name), FALSE)
  /\ pre' = Snapshot
  /\ env' = env
  /\ error' = NoError
  /\ UNCHANGED <<nextId, objects, types, incoming, nops>>

\* Structs: objects of type N with the fields a and b.
Next ==
  \/ \E spec \in StructSchemas : DefineTypeCall(spec)
  \/ \E initial \in Initials : CreateObjectCall("N", initial)
  \/ \E parentId \in Allocated, name \in {"a", "b"}, value \in InputValues :
       \E isMandatory \in Flags(value) : SetFieldCall(parentId, name, value, isMandatory)
  \/ \E id \in Allocated : DeleteCascadeCall(id)

Spec == Init /\ [][Next]_vars

\* Arrays: untyped objects, arrays of them, writes to slot 0 and reads.
ArrayNext ==
  \/ \E spec \in ArraySchemas : DefineTypeCall(spec)
  \/ CreateObjectCall(NoType, <<>>)
  \/ \E elements \in ElementLists : CreateArrayCall(elements)
  \/ \E parentId \in Allocated, value \in RefValues :
       \E isMandatory \in Flags(value) : SetFieldCall(parentId, "0", value, isMandatory)
  \/ \E id \in Allocated, value \in RefValues : ArrayPushCall(id, value)
  \/ \E id \in Allocated : DeleteCascadeCall(id)
  \/ \E id \in Allocated : GetObjectCall(id)
  \/ \E id \in Allocated : GetFieldCall(id, "0")

ArraySpec == Init /\ [][ArrayNext]_vars

\* Heap.isFieldMandatory(typeName, fieldName), which reads the registry only
IsFieldMandatoryCall(typeName, fieldName) ==
  /\ last' = Call("is_field_mandatory", 0, typeName, fieldName,
                  IsFieldMandatory(types, typeName, fieldName))
  /\ pre' = Snapshot
  /\ env' = env
  /\ error' = NoError
  /\ UNCHANGED <<nextId, objects, types, incoming, nops>>

\* field lists of at most two fields, no name twice, over the names a and b
FieldLists ==
  {<<>>}
  \cup {<<FieldSpec(f, o)>> : f \in {"a", "b"}, o \in BOOLEAN}
  \cup {<<FieldSpec(f, o), FieldSpec(g, q)>> : <<f, g>> \in {<<"a", "b">>, <<"b", "a">>},
                                                 o \in BOOLEAN, q \in BOOLEAN}

\* schemas for the type names N and M
RegistrySchemas == {TypeSpec(n, fields) : n \in {"N", "M"}, fields \in FieldLists}

\* The type registry: schemas are registered and replaced, and mandatoriness
\* is queried for an absent type name, for N and M, registered or not, and for
\* the fields a, b and c.
RegistryNext ==
  \/ \E spec \in RegistrySchemas : DefineTypeCall(spec)
  \/ \E typeName \in {NoType, "N", "M"}, fieldName \in {"a", "b", "c"} :
       IsFieldMandatoryCall(typeName, fieldName)

RegistrySpec == Init /\ [][RegistryNext]_vars

\* Values a variable can hold when it is the base of an assignment: null, an
\* identifier returned so far, live or dead, and the number nextId, which
\* names no object yet
BaseValues == RefValues \cup {Num(nextId)}

\* Programs: struct declarations, object literals and property assignments,
\* next to calls of set_field with an identifier that names no live object:
\* that of a deleted object, or nextId, not allocated yet.
LangNext ==
  \/ \E spec \in StructSchemas : DefineTypeCall(spec)
  \/ \E typeName \in {"N", NoType}, props \in Initials : EvalObjectCall(typeName, props)
  \/ \E baseVal \in BaseValues, prop \in {"a", "b"}, value \in RefValues :
       AssignCall(baseVal, prop, value)
  \/ \E parentId \in (1..nextId) \ DOMAIN objects, name \in {"a", "b"}, value \in RefValues :
       \E isMandatory \in Flags(value) : SetFieldCall(parentId, name, value, isMandatory)

LangSpec == Init /\ [][LangNext]_vars

\* `let name = value` for a literal or a variable: Interpreter.execLet
ExecLetCall(name, value) ==
  /\ nops < MaxOps
  /\ env' = EnvSetLocal(env, name, value)
  /\ last' = Call("let", 0, name, value, FALSE)
  /\ pre' = Snapshot
  /\ error' = NoError
  /\ nops' = nops + 1
  /\ UNCHANGED <<nextId, objects, types, incoming>>

\* `let name = new T { props }` or `let name = { props }`
ExecLetObjectCall(name, typeName, props) ==
  /\ nops < MaxOps
  /\ nextId <= MaxObjects
  /\ LET r == EvalObject(Heap, types, typeName, props)
     IN /\ nextId' = r.nextId
        /\ objects' = r.objects
        /\ incoming' = r.incoming
  /\ env' = EnvSetLocal(env, name, Id(nextId))
  /\ last' = Call("let_object", nextId, name, Null, FALSE)
  /\ pre' = Snapshot
  /\ error' = NoError
  /\ nops' = nops + 1
  /\ UNCHANGED types

\* the statement `name = value`
AssignIdentCall(name, value) ==
  /\ nops < MaxOps
  /\ LET r == AssignToIdent(Heap, types, env, name, value)
     IN /\ objects' = r.heap.objects
        /\ incoming' = r.heap.incoming
        /\ env' = r.env
  /\ last' = Call("assign_ident", 0, name, value, FALSE)
  /\ pre' = Snapshot
  /\ error' = NoError
  /\ nops' = nops + 1
  /\ UNCHANGED <<nextId, types>>

\* the expression `base.prop`: value is what it yields
EvalAccessCall(base, prop) ==
  /\ LET r == EvalAccess(Heap, base, prop)
     IN /\ last' = CallOn("access", base, prop, r.value)
        /\ error' = r.error
  /\ pre' = Snapshot
  /\ UNCHANGED <<nextId, objects, types, incoming, env, nops>>

\* Interpreter.execBlock: a scope is opened, and closed when the block ends
EnterBlockCall ==
  /\ Len(env) < MaxDepth
  /\ env' = Append(env, EmptyMap)
  /\ last' = Call("block", 0, "{", Null, FALSE)
  /\ pre' = Snapshot
  /\ error' = NoError
  /\ UNCHANGED <<nextId, objects, types, incoming, nops>>

ExitBlockCall ==
  /\ Len(env) > 1
  /\ env' = SubSeq(env, 1, Len(env) - 1)
  /\ last' = Call("block", 0, "}", Null, FALSE)
  /\ pre' = Snapshot
  /\ error' = NoError
  /\ UNCHANGED <<nextId, objects, types, incoming, nops>>

\* the variables of the programs
VarNames == {"x", "y"}

\* What an expression of these programs can evaluate to: the literals null
\* and 1, or the value of a variable in scope
ExprValues ==
  {Null, Num(1)}
  \cup {EnvGet(env, Len(env), name)[1] :
          name \in {v \in VarNames : EnvGet(env, Len(env), v) # <<>>}}

\* struct N { mandatory a, optional b }
ProgramSchemas == {TypeSpec("N", <<FieldSpec("a", FALSE), FieldSpec("b", TRUE)>>)}

\* Programs with variables: declarations, blocks, object literals bound to a
\* variable, and assignments to variables and to the field a.
ProgramNext ==
  \/ \E spec \in ProgramSchemas : DefineTypeCall(spec)
  \/ \E name \in VarNames, value \in ExprValues : ExecLetCall(name, value)
  \/ \E name \in VarNames : ExecLetObjectCall(name, "N", <<>>)
  \/ \E name \in VarNames, value \in ExprValues : AssignIdentCall(name, value)
  \/ \E baseVal \in ExprValues, value \in ExprValues : AssignCall(baseVal, "a", value)
  \/ EnterBlockCall
  \/ ExitBlockCall

ProgramSpec == Init /\ [][ProgramNext]_vars

\* What the base of a field access can evaluate to: null, true, "s", the
\* number nextId, which names no object, and the identifiers returned so far
AccessBases == {Null, BoolLit, StringLit, Num(nextId)} \cup {Id(k) : k \in Allocated}

\* Field accesses: object literals, then `base.a = value` and `base.a` on
\* every kind of base.
AccessNext ==
  \/ \E spec \in ProgramSchemas : DefineTypeCall(spec)
  \/ \E typeName \in {"N", NoType} : EvalObjectCall(typeName, <<>>)
  \/ \E baseVal \in AccessBases, value \in RefValues : AssignCall(baseVal, "a", value)
  \/ \E base \in AccessBases : EvalAccessCall(base, "a")

AccessSpec == Init /\ [][AccessNext]_vars

\* the statement `base[idx] = value`: name is the key String(idx)
AssignIndexCall(baseVal, idx, value) ==
  /\ nops < MaxOps
  /\ LET r == AssignIndex(Heap, baseVal, idx, value)
     IN /\ objects' = r.objects
        /\ incoming' = r.incoming
        /\ error' = r.error
  /\ last' = CallOn("index_assign", baseVal, ToString(idx), value)
  /\ pre' = Snapshot
  /\ nops' = nops + 1
  /\ UNCHANGED <<nextId, types, env>>

\* the expression `base[idx]`: value is what it yields
EvalIndexCall(base, idx) ==
  /\ LET r == EvalIndex(Heap, base, idx)
     IN /\ last' = CallOn("index_read", base, ToString(idx), r.value)
        /\ error' = r.error
  /\ pre' = Snapshot
  /\ UNCHANGED <<nextId, objects, types, incoming, env, nops>>

\* Indexed programs: untyped objects `{}`, array literals of at most one
\* element, indexed writes and reads at the indices 0..MaxIndex, and
\* delete_cascade.
IndexNext ==
  \/ EvalObjectCall(NoType, <<>>)
  \/ \E elements \in ElementLists : CreateArrayCall(elements)
  \/ \E baseVal \in RefValues, idx \in 0..MaxIndex, value \in RefValues :
       AssignIndexCall(baseVal, idx, value)
  \/ \E base \in RefValues, idx \in 0..MaxIndex : EvalIndexCall(base, idx)
  \/ \E id \in Allocated : DeleteCascadeCall(id)

IndexSpec == Init /\ [][IndexNext]_vars

\* The heap after create_object() -> 1 and create_array([]) -> 2
PushHeap ==
  HeapOf(CreateArray(HeapOf(CreateObject([nextId |-> 1, objects |-> EmptyMap,
                                          incoming |-> EmptyMap], NoType, <<>>)), <<>>))

\* An untyped object and an empty array have been created
PushInit ==
  /\ nextId = PushHeap.nextId
  /\ objects = PushHeap.objects
  /\ types = EmptyMap
  /\ incoming = PushHeap.incoming
  /\ env = <<EmptyMap>>
  /\ last = Call("new", 0, "", Null, FALSE)
  /\ pre = Snapshot
  /\ error = NoError
  /\ nops = 0

\* Heap calls on that object and that array, and on one more object: writes
\* to slot 0, array_push and delete_cascade.
PushNext ==
  \/ CreateObjectCall(NoType, <<>>)
  \/ \E parentId \in Allocated, value \in RefValues :
       \E isMandatory \in Flags(value) : SetFieldCall(parentId, "0", value, isMandatory)
  \/ \E id \in Allocated, value \in RefValues : ArrayPushCall(id, value)
  \/ \E id \in Allocated : DeleteCascadeCall(id)

PushSpec == PushInit /\ [][PushNext]_vars

\* ------------------------------------------------------------- vocabulary of the properties

\* f is marked mandatory by the schema registered for typeName
SchemaMandatory(typs, typeName, f) ==
  /\ typeName \in DOMAIN typs
  /\ \E i \in 1..Len(typs[typeName]) :
       /\ typs[typeName][i].name = f
       /\ ~typs[typeName][i].optional
       /\ \A j \in 1..(i - 1) : typs[typeName][j].name # f

\* v is an object identifier (a reference), not a plain number
IsRef(v) == v.tag = "id"

\* the (o, f) whose value in objs is the identifier c
Referrers(objs, c) ==
  {<<o, f>> \in UNION {{<<o, f>> : f \in DOMAIN objs[o].fields} : o \in DOMAIN objs} :
     objs[o].fields[f] = Id(c)}

\* the back-edges recorded for c
BackEdges(inc, c) == IF c \in DOMAIN inc THEN {inc[c][i] : i \in 1..Len(inc[c])} ELSE {}

\* how often key occurs among the back-edges recorded for c
Occurrences(inc, c, key) ==
  IF c \in DOMAIN inc THEN Cardinality({i \in 1..Len(inc[c]) : inc[c][i] = key}) ELSE 0

\* the call that produced this state deleted the live object r: a
\* delete_cascade(r), or a null written with is_mandatory = true to a field of r
Deleted(r) ==
  /\ r \in DOMAIN pre.objects
  /\ \/ last.op = "delete_cascade" /\ last.id = r
     \/ last.op = "set_field" /\ last.id = r /\ last.value = Null /\ last.mand

\* the objects that call destroyed
Destroyed == (DOMAIN pre.objects) \ (DOMAIN objects)

\* ------------------------------------------------------------- C1

\* C1 (P1): for every live object o and every field f of o whose value is an
\* object identifier c, c is live and the reverse index of c holds the
\* back-edge (o, f) exactly once.
C1_ForwardEdgesTracked ==
  \A o \in DOMAIN objects : \A f \in DOMAIN objects[o].fields :
    LET v == objects[o].fields[f]
    IN IsRef(v) => /\ v.n \in DOMAIN objects
                   /\ Occurrences(incoming, v.n, ParentKey(o, f)) = 1

\* ------------------------------------------------------------- C2

\* C2 (I1, second half): every back-edge (o, f) recorded for c is matched by
\* the forward map: o is live, the value of o.f is the number c, and c is live.
C2_BackEdgesMatched ==
  \A c \in DOMAIN incoming : \A key \in BackEdges(incoming, c) :
    LET o == SplitKey(key).pid
        f == SplitKey(key).fieldName
    IN /\ c \in DOMAIN objects
       /\ o \in DOMAIN objects
       /\ f \in DOMAIN objects[o].fields
       /\ IsNumber(objects[o].fields[f])
       /\ objects[o].fields[f].n = c

\* ------------------------------------------------------------- C3

\* C3 (I2, P2): no live object has a field that the current schema of its type
\* marks mandatory and whose value is null.
C3_MandatoryNotNull ==
  \A o \in DOMAIN objects : \A f \in DOMAIN objects[o].fields :
    SchemaMandatory(types, objects[o].typeName, f) => objects[o].fields[f] # Null

\* o.f is mandatory in the current schema and holds null
MandatoryNull(objs, o, f) ==
  /\ o \in DOMAIN objs
  /\ f \in DOMAIN objs[o].fields
  /\ objs[o].fields[f] = Null
  /\ SchemaMandatory(types, objs[o].typeName, f)

\* C3, amended: delete_cascade, and set_field unless it is given null with
\* is_mandatory = false, put null in no mandatory field of an object that is
\* live when they return: such a field held null before the call.
C3_NoNullInstalledByWriteOrCascade ==
  (last.op = "delete_cascade" \/ (last.op = "set_field" /\ (last.value # Null \/ last.mand)))
  => \A o \in DOMAIN objects : \A f \in DOMAIN objects[o].fields :
       MandatoryNull(objects, o, f) => MandatoryNull(pre.objects, o, f)

\* C3's case: a cascade nulled the mandatory field of a parent of the deleted
\* object, and that parent is gone.
C3_Witness ==
  /\ last.op = "delete_cascade"
  /\ \E key \in Referrers(pre.objects, last.id) :
       /\ SchemaMandatory(types, pre.objects[key[1]].typeName, key[2])
       /\ key[1] # last.id
       /\ key[1] \notin DOMAIN objects

\* ------------------------------------------------------------- C4

\* C4 (I3, P3): no field of a live object holds the identifier of a dead object.
C4_NoDanglingIdentifier ==
  \A o \in DOMAIN objects : \A f \in DOMAIN objects[o].fields :
    IsRef(objects[o].fields[f]) => objects[o].fields[f].n \in DOMAIN objects

\* ------------------------------------------------------------- C5

\* C5: set_field(parent, name, null, is_mandatory = true) on a live parent
\* leaves parent dead; the null is not installed in a live parent.
C5_MandatoryNullDeletesParent ==
  (last.op = "set_field" /\ last.value = Null /\ last.mand /\ last.id \in DOMAIN pre.objects)
  => last.id \notin DOMAIN objects

\* C5's case: such a call on a live parent whose field held a value
C5_Witness ==
  /\ last.op = "set_field" /\ last.value = Null /\ last.mand
  /\ last.id \in DOMAIN pre.objects
  /\ last.name \in DOMAIN pre.objects[last.id].fields
  /\ pre.objects[last.id].fields[last.name] # Null
  /\ last.id \notin DOMAIN objects

\* ------------------------------------------------------------- mandatory chains

\* the live objects holding the identifier of c in a field their schema
\* marks mandatory
MandParents(objs, typs, c) ==
  {o \in DOMAIN objs :
     \E f \in DOMAIN objs[o].fields :
       objs[o].fields[f] = Id(c) /\ SchemaMandatory(typs, objs[o].typeName, f)}

\* S and every object that reaches an object of S through a chain of
\* mandatory reference fields
RECURSIVE MandAncestors(_, _, _)
MandAncestors(objs, typs, S) ==
  LET T == S \cup UNION {MandParents(objs, typs, c) : c \in S}
  IN IF T = S THEN S ELSE MandAncestors(objs, typs, T)

\* s reaches r through a chain of mandatory reference fields, before the call
ReachedMandatorily(s, r) == s \in MandAncestors(pre.objects, pre.types, {r})

\* ------------------------------------------------------------- C6

\* C6 (P5): when a node r of a cycle of mandatory references is deleted, by
\* delete_cascade or by a null written to a mandatory field of r, every node
\* of the cycle is dead when the call returns.
C6_MandatoryCycleDies ==
  \A r \in DOMAIN pre.objects : Deleted(r) =>
    \A n \in DOMAIN pre.objects :
      (ReachedMandatorily(n, r) /\ ReachedMandatorily(r, n)) => n \notin DOMAIN objects

\* C6's case: x.link = null for x on a cycle x -> y -> x of mandatory links
C6_Witness ==
  /\ last.op = "set_field" /\ Deleted(last.id)
  /\ SchemaMandatory(pre.types, pre.objects[last.id].typeName, last.name)
  /\ \E y \in DOMAIN pre.objects :
       /\ y # last.id
       /\ pre.objects[last.id].fields = (last.name :> Id(y))
       /\ last.id \in MandParents(pre.objects, pre.types, y)
       /\ y \in MandParents(pre.objects, pre.types, last.id)
       /\ y \notin DOMAIN objects
  /\ last.id \notin DOMAIN objects

\* ------------------------------------------------------------- C7

\* C7: when delete_cascade(r) returns, every object s that reached r through
\* a chain of mandatory reference fields, of any length, is dead.
C7_MandatoryChainDies ==
  \A r \in DOMAIN pre.objects : (last.op = "delete_cascade" /\ last.id = r) =>
    \A s \in DOMAIN pre.objects : ReachedMandatorily(s, r) => s \notin DOMAIN objects

\* C7's case: a chain s -> m -> r, s found only when m is taken from the stack
C7_Witness ==
  /\ last.op = "delete_cascade"
  /\ \E s, m \in DOMAIN pre.objects :
       /\ Cardinality({s, m, last.id}) = 3
       /\ m \in MandParents(pre.objects, pre.types, last.id)
       /\ s \in MandParents(pre.objects, pre.types, m)
       /\ s \notin MandParents(pre.objects, pre.types, last.id)
       /\ {s, m, last.id} \cap DOMAIN objects = {}

\* ------------------------------------------------------------- C8

\* C8 (P4): a live object s that does not reach r through a chain of mandatory
\* reference fields is still live after r is deleted.
C8_UnreachableSurvives ==
  \A r, s \in DOMAIN pre.objects :
    (r # s /\ Deleted(r) /\ ~ReachedMandatorily(s, r)) => s \in DOMAIN objects

\* ------------------------------------------------------------- C9

\* p held the identifier of c in the field f, which the schema of p does not
\* mark mandatory, when the call began
OptionalReferrer(p, f, c) ==
  /\ <<p, f>> \in Referrers(pre.objects, c)
  /\ p # c
  /\ ~SchemaMandatory(pre.types, pre.objects[p].typeName, f)

\* C9: when c is deleted and a live parent p, not itself the object the call
\* deletes, references c through an optional field f, p survives and p.f is null.
C9_OptionalParentSurvives ==
  \A c \in Destroyed : \A key \in Referrers(pre.objects, c) :
    (OptionalReferrer(key[1], key[2], c) /\ ~Deleted(key[1]))
    => /\ key[1] \in DOMAIN objects
       /\ objects[key[1]].fields[key[2]] = Null

\* the reverse index of an object the call destroyed held a back-edge (p, g)
\* on a field g that the schema of p marks mandatory
HasMandatoryBackEdge(p) ==
  \E d \in Destroyed : \E key \in BackEdges(pre.incoming, d) :
    /\ SplitKey(key).pid = p
    /\ SchemaMandatory(pre.types, pre.objects[p].typeName, SplitKey(key).fieldName)

\* C9, amended: p.f is null if p survives, and p is deleted by the call only
\* if it is the object being deleted or a deleted object has a back-edge to p
\* on a mandatory field.
C9_OptionalEdgeSparesParent ==
  \A c \in Destroyed : \A key \in Referrers(pre.objects, c) :
    OptionalReferrer(key[1], key[2], c)
    => IF key[1] \in DOMAIN objects
       THEN objects[key[1]].fields[key[2]] = Null
       ELSE Deleted(key[1]) \/ HasMandatoryBackEdge(key[1])

\* C9's case: b.a = null for mandatory a, with p.b = b optional: p survives
\* with p.b null
C9_Witness ==
  /\ last.op = "set_field" /\ Deleted(last.id)
  /\ \E p \in DOMAIN objects :
       /\ OptionalReferrer(p, "b", last.id)
       /\ SchemaMandatory(pre.types, pre.objects[p].typeName, "a")
       /\ objects[p].fields["b"] = Null
  /\ last.id \notin DOMAIN objects

\* ------------------------------------------------------------- C10

\* C10 (P6): set_field(p, f, null, is_mandatory = false) on a live p leaves p
\* live with f null and its other fields as they were, deletes and changes no
\* other object, and changes the reverse index only by removing the back-edge
\* (p, f) from the previous referent of p.f.
C10_OptionalNullIsPlainWrite ==
  (last.op = "set_field" /\ last.value = Null /\ ~last.mand /\ last.id \in DOMAIN pre.objects)
  => LET p == last.id
         f == last.name
         prev == MapGet(pre.objects[p].fields, f)
     IN /\ DOMAIN objects = DOMAIN pre.objects
        /\ \A o \in (DOMAIN objects) \ {p} : objects[o] = pre.objects[o]
        /\ objects[p].typeName = pre.objects[p].typeName
        /\ DOMAIN objects[p].fields = (DOMAIN pre.objects[p].fields) \cup {f}
        /\ objects[p].fields[f] = Null
        /\ \A g \in (DOMAIN pre.objects[p].fields) \ {f} :
             objects[p].fields[g] = pre.objects[p].fields[g]
        /\ \A c \in (DOMAIN incoming) \cup (DOMAIN pre.incoming) :
             BackEdges(incoming, c) =
               IF IsNumber(prev) /\ prev.n = c
               THEN BackEdges(pre.incoming, c) \ {ParentKey(p, f)}
               ELSE BackEdges(pre.incoming, c)
        /\ types = pre.types

\* C10's case: the optional field held a reference, the holder has another
\* field, and the referent loses its back-edge
C10_Witness ==
  /\ last.op = "set_field" /\ last.value = Null /\ ~last.mand
  /\ last.id \in DOMAIN pre.objects /\ last.id \in DOMAIN objects
  /\ \E c \in DOMAIN objects :
       /\ c # last.id
       /\ <<last.id, last.name>> \in Referrers(pre.objects, c)
       /\ ParentKey(last.id, last.name) \in BackEdges(pre.incoming, c)
       /\ ParentKey(last.id, last.name) \notin BackEdges(incoming, c)
  /\ \E g \in DOMAIN objects[last.id].fields :
       g # last.name /\ IsRef(objects[last.id].fields[g])

\* ------------------------------------------------------------- C11

\* the cascade of the delete_cascade call that produced this state, run on the
\* heap the call began with
CascadeOfLastCall ==
  DeleteObjectCascade([nextId |-> nextId, objects |-> pre.objects,
                       incoming |-> pre.incoming], pre.types, last.id)

\* the number of back-edges the reverse index holds
RECURSIVE BackEdgeCount(_, _)
BackEdgeCount(inc, S) ==
  IF S = {} THEN 0
  ELSE LET c == CHOOSE x \in S : TRUE
       IN Len(inc[c]) + BackEdgeCount(inc, S \ {c})

\* C11: delete_cascade terminates, on heaps with mandatory cycles,
\* self-references and a child referenced through several fields of one
\* parent: its loop runs at most once more than there are back-edges in the
\* heap, and each object is processed (destroyed) at most once, the objects
\* processed being exactly those the call removed.
C11_CascadeTerminatesOncePerObject ==
  last.op = "delete_cascade" =>
    LET r == CascadeOfLastCall
    IN /\ r.objects = objects
       /\ r.incoming = incoming
       /\ r.pops <= 1 + BackEdgeCount(pre.incoming, DOMAIN pre.incoming)
       /\ \A i, j \in 1..Len(r.processed) : r.processed[i] = r.processed[j] => i = j
       /\ {r.processed[i] : i \in 1..Len(r.processed)} = Destroyed

\* C11's case: the deleted object references itself through a mandatory field
\* and a second object references it too, so that the loop finds the root on
\* its stack again and skips it.
C11_Witness ==
  /\ last.op = "delete_cascade"
  /\ <<last.id, "a">> \in Referrers(pre.objects, last.id)
  /\ SchemaMandatory(pre.types, pre.objects[last.id].typeName, "a")
  /\ Len(CascadeOfLastCall.processed) >= 2
  /\ CascadeOfLastCall.pops > Len(CascadeOfLastCall.processed)

\* ------------------------------------------------------------- C12

\* C12 (I4): identifiers are positive and handed out in increasing order: a
\* create_object or create_array returns nextId, which is at least 1 and above
\* every identifier returned before, and moves nextId one up; no other call
\* moves nextId; every live object has an identifier below nextId; and an
\* identifier that is dead stays dead.
C12_IdentifiersNeverReused ==
  [][ /\ nextId >= 1
      /\ DOMAIN objects \subseteq 1..(nextId - 1)
      /\ DOMAIN objects' \subseteq 1..(nextId' - 1)
      /\ \A k \in 1..(nextId - 1) : k \notin DOMAIN objects => k \notin DOMAIN objects'
      /\ IF last'.op \in {"create_object", "create_array"}
         THEN /\ last'.id = nextId
              /\ last'.id > 0
              /\ last'.id \notin DOMAIN objects
              /\ last'.id \in DOMAIN objects'
              /\ nextId' = nextId + 1
         ELSE nextId' = nextId
    ]_vars

\* C12's case: an object is created after an object died, and gets a new
\* identifier while the dead one stays dead
C12_Witness ==
  /\ last.op \in {"create_object", "create_array"}
  /\ last.id = nextId - 1
  /\ \E k \in 1..(last.id - 1) : k \notin DOMAIN pre.objects /\ k \notin DOMAIN objects

\* ------------------------------------------------------------- C13

\* the call that produced this state wrote through the number id, which named
\* no live object: set_field(id, ...), or `p.f = v` with p holding id
WroteToDead(id) ==
  /\ last.op \in {"set_field", "assign"}
  /\ last.id = id
  /\ id >= 1
  /\ id \notin DOMAIN pre.objects

\* C13: set_field on a dead or never allocated parent identifier, and the
\* assignment `p.f = v` where p holds such an identifier, throw nothing and
\* leave the forward map, the reverse index and the type registry as they
\* were, whatever the value and the is_mandatory flag.
C13_DeadParentWriteIsNoOp ==
  WroteToDead(last.id) =>
    /\ error = NoError
    /\ objects = pre.objects
    /\ incoming = pre.incoming
    /\ types = pre.types

\* C13's case: `p.f = v` where p holds the identifier of a deleted object and
\* v that of a live one
C13_Witness ==
  /\ last.op = "assign"
  /\ WroteToDead(last.id)
  /\ last.id \in Allocated
  /\ IsRef(last.value) /\ last.value.n \in DOMAIN objects

\* ------------------------------------------------------------- C14

\* the slots of an array: its fields other than length
Slots(obj) == (DOMAIN obj.fields) \ {"length"}

\* C14: when a call destroys an object c held in slot i of a live array that
\* is not itself the object the call deletes, the array stays live, slot i is
\* null, and length and the slots that held no destroyed object are as before.
C14_ArraySurvivesElementDeletion ==
  \A arr \in DOMAIN pre.objects :
    (pre.objects[arr].typeName = ArrayType /\ ~Deleted(arr)) =>
      \A i \in Slots(pre.objects[arr]) :
        LET v == pre.objects[arr].fields[i]
        IN (IsRef(v) /\ v.n \in Destroyed) =>
             /\ arr \in DOMAIN objects
             /\ objects[arr].fields[i] = Null
             /\ objects[arr].fields["length"] = pre.objects[arr].fields["length"]
             /\ \A j \in Slots(pre.objects[arr]) :
                  LET w == pre.objects[arr].fields[j]
                  IN ~(IsRef(w) /\ w.n \in Destroyed) => objects[arr].fields[j] = w

\* ------------------------------------------------------------- C15

\* C15: create_object(type, initial) validates nothing and deletes nothing:
\* the identifier it returns names a new live object of that type holding
\* exactly the initial fields, also when a mandatory field is absent or null;
\* every initial field whose value is the identifier of a live object has its
\* back-edge; and every object live before is live and unchanged.
C15_CreateObjectInstallsInitial ==
  last.op = "create_object" =>
    /\ error = NoError
    /\ last.id \notin DOMAIN pre.objects
    /\ DOMAIN objects = (DOMAIN pre.objects) \cup {last.id}
    /\ objects[last.id] = [typeName |-> last.name, fields |-> last.value]
    /\ \A f \in DOMAIN last.value :
         (IsRef(last.value[f]) /\ last.value[f].n \in DOMAIN objects)
         => ParentKey(last.id, f) \in BackEdges(incoming, last.value[f].n)
    /\ \A o \in DOMAIN pre.objects : objects[o] = pre.objects[o]
    /\ types = pre.types

\* C15's case: an object of type N is created with its mandatory field b
\* null, while another object is live
C15_Witness ==
  /\ last.op = "create_object"
  /\ SchemaMandatory(types, last.name, "b")
  /\ DOMAIN last.value = {"b"} /\ last.value["b"] = Null
  /\ pre.objects # EmptyMap
  /\ last.id \in DOMAIN objects

\* ------------------------------------------------------------- C16

\* C16: is_field_mandatory(type_name, field) is true exactly when type_name is
\* given and registered, field is in its schema and the optional flag of that
\* field is false; it is false for an absent type name, an unregistered type
\* and a field not in the schema.  The call changes nothing.
C16_IsFieldMandatoryIffRegisteredMandatory ==
  last.op = "is_field_mandatory" =>
    /\ last.mand <=>
         /\ last.name # NoType
         /\ last.name \in DOMAIN types
         /\ \E i \in 1..Len(types[last.name]) :
              types[last.name][i].name = last.value /\ ~types[last.name][i].optional
    /\ last.name = NoType => ~last.mand
    /\ last.name \notin DOMAIN types => ~last.mand
    /\ (last.name \in DOMAIN types
        /\ \A i \in 1..Len(types[last.name]) : types[last.name][i].name # last.value)
       => ~last.mand
    /\ types = pre.types /\ objects = pre.objects /\ incoming = pre.incoming

\* C16's case: the query is true for the second field of a schema whose first
\* field is optional, while the other type is not registered
C16_Witness ==
  /\ last.op = "is_field_mandatory"
  /\ last.mand
  /\ DOMAIN types = {last.name}
  /\ Len(types[last.name]) = 2
  /\ types[last.name][1].optional
  /\ types[last.name][2].name = last.value

\* ------------------------------------------------------------- C17

\* C17: define_type replaces the schema registered under the name and changes
\* nothing else, no object and no back-edge; and an assignment `p.f = null`
\* made later is decided by the schema of p's type registered when the
\* assignment is made: if that schema marks f mandatory, p and every object
\* reaching p through fields that schema marks mandatory are dead afterwards,
\* otherwise nothing is deleted and p.f is null.
C17_RedefinitionGovernsLaterWrites ==
  /\ last.op = "define_type" =>
       /\ objects = pre.objects
       /\ incoming = pre.incoming
       /\ types = MapSet(pre.types, last.name, last.value)
       /\ error = NoError
  /\ (last.op = "assign" /\ last.value = Null /\ last.id \in DOMAIN pre.objects) =>
       IF SchemaMandatory(pre.types, pre.objects[last.id].typeName, last.name)
       THEN \A s \in MandAncestors(pre.objects, pre.types, {last.id}) : s \notin DOMAIN objects
       ELSE /\ DOMAIN objects = DOMAIN pre.objects
            /\ objects[last.id].fields[last.name] = Null

\* C17's case: p.f already holds null, written before the schema in force made
\* f mandatory; under that later schema `p.f = null` deletes p
C17_Witness ==
  /\ last.op = "assign" /\ last.value = Null
  /\ last.id \in DOMAIN pre.objects
  /\ last.name \in DOMAIN pre.objects[last.id].fields
  /\ pre.objects[last.id].fields[last.name] = Null
  /\ SchemaMandatory(pre.types, pre.objects[last.id].typeName, last.name)
  /\ last.id \notin DOMAIN objects

\* ------------------------------------------------------------- C18

\* C18: array_push(id, value) on a live array of length n stores value in slot
\* n and makes length n + 1, records the back-edge (id, n) when value is the
\* identifier of a live object, and leaves the other slots of the array and
\* every other object as they were; on a dead identifier or an object that is
\* not an array it changes nothing.
C18_ArrayPushAppends ==
  last.op = "array_push" =>
    /\ error = NoError
    /\ types = pre.types
    /\ IF last.id \in DOMAIN pre.objects /\ pre.objects[last.id].typeName = ArrayType
       THEN LET old == pre.objects[last.id]
                n == old.fields["length"].n
                key == ToString(n)
            IN /\ DOMAIN objects = DOMAIN pre.objects
               /\ objects[last.id].typeName = ArrayType
               /\ DOMAIN objects[last.id].fields = (DOMAIN old.fields) \cup {key}
               /\ objects[last.id].fields[key] = last.value
               /\ IsNumber(objects[last.id].fields["length"])
               /\ objects[last.id].fields["length"].n = n + 1
               /\ \A g \in (DOMAIN old.fields) \ {key, "length"} :
                    objects[last.id].fields[g] = old.fields[g]
               /\ \A o \in (DOMAIN pre.objects) \ {last.id} : objects[o] = pre.objects[o]
               /\ (IsRef(last.value) /\ last.value.n \in DOMAIN objects)
                  => ParentKey(last.id, key) \in BackEdges(incoming, last.value.n)
       ELSE /\ objects = pre.objects
            /\ incoming = pre.incoming

\* C18's case: the identifier of a live object is pushed on an array of
\* length 1 whose slot 0 holds a reference
C18_Witness ==
  /\ last.op = "array_push"
  /\ last.id \in DOMAIN pre.objects /\ pre.objects[last.id].typeName = ArrayType
  /\ pre.objects[last.id].fields["length"].n = 1
  /\ IsRef(pre.objects[last.id].fields["0"])
  /\ IsRef(last.value) /\ last.value.n \in DOMAIN objects
  /\ objects[last.id].fields["1"] = last.value
  /\ ParentKey(last.id, "1") \in BackEdges(incoming, last.value.n)

\* ------------------------------------------------------------- C19

\* C19: only a cascade destroys objects: define_type, create_object,
\* create_array, get_field, get_object, array_push and every set_field other
\* than a null written with is_mandatory = true leave every object that was
\* live, live.
C19_OnlyCascadeDestroys ==
  (\/ last.op \in {"define_type", "create_object", "create_array", "get_field",
                   "get_object", "array_push"}
   \/ (last.op = "set_field" /\ ~(last.value = Null /\ last.mand)))
  => /\ DOMAIN pre.objects \subseteq DOMAIN objects
     /\ error = NoError

\* C19's case: set_field overwrites the only reference to an object, which
\* stays live with no referrer and no back-edge
C19_Witness ==
  /\ last.op = "set_field"
  /\ last.id \in DOMAIN pre.objects
  /\ \E c \in DOMAIN pre.objects :
       /\ c # last.id
       /\ Referrers(pre.objects, c) = {<<last.id, last.name>>}
       /\ Referrers(objects, c) = {}
       /\ BackEdges(incoming, c) = {}
       /\ c \in DOMAIN objects

\* ------------------------------------------------------------- C20

\* C20: an untyped object, made by the literal `{ ... }`, has no mandatory
\* field: the literal leaves it live even with a null property, and
\* `p.f = null` on it stores null in f, leaves its other fields and every
\* other object as they were and deletes nothing, whatever is registered.
C20_UntypedHasNoMandatoryField ==
  /\ (last.op = "object_literal" /\ last.name = NoType) =>
       /\ DOMAIN objects = (DOMAIN pre.objects) \cup {last.id}
       /\ objects[last.id].typeName = NoType
  /\ (/\ last.op = "assign" /\ last.value = Null
      /\ last.id \in DOMAIN pre.objects
      /\ pre.objects[last.id].typeName = NoType) =>
       /\ error = NoError
       /\ DOMAIN objects = DOMAIN pre.objects
       /\ objects[last.id].typeName = NoType
       /\ DOMAIN objects[last.id].fields = (DOMAIN pre.objects[last.id].fields) \cup {last.name}
       /\ objects[last.id].fields[last.name] = Null
       /\ \A g \in (DOMAIN pre.objects[last.id].fields) \ {last.name} :
            objects[last.id].fields[g] = pre.objects[last.id].fields[g]
       /\ \A o \in (DOMAIN pre.objects) \ {last.id} : objects[o] = pre.objects[o]

\* C20's case: `p.f = null` on an untyped p whose f held a reference, while
\* the registered type N marks a field of that name mandatory
C20_Witness ==
  /\ last.op = "assign" /\ last.value = Null
  /\ last.id \in DOMAIN pre.objects
  /\ pre.objects[last.id].typeName = NoType
  /\ last.name \in DOMAIN pre.objects[last.id].fields
  /\ IsRef(pre.objects[last.id].fields[last.name])
  /\ SchemaMandatory(pre.types, "N", last.name)
  /\ last.id \in DOMAIN objects
  /\ objects[last.id].fields[last.name] = Null

\* ------------------------------------------------------------- C21

\* C21: the assignment `b = v` to a variable only rebinds b: the forward map,
\* the reverse index and the registry are as before, so the object b named
\* stays live and nothing cascades; b is bound to v and the other variables
\* keep their values.
C21_IdentAssignmentOnlyRebinds ==
  last.op = "assign_ident" =>
    /\ error = NoError
    /\ objects = pre.objects
    /\ incoming = pre.incoming
    /\ types = pre.types
    /\ Len(env) = Len(pre.env)
    /\ EnvGet(env, Len(env), last.name) = <<last.value>>
    /\ \A v \in VarNames \ {last.name} :
         EnvGet(env, Len(env), v) = EnvGet(pre.env, Len(pre.env), v)

\* C21's case: `b = null` where b held the identifier of an object that another
\* object references through its mandatory field a; the object stays live
C21_Witness ==
  /\ last.op = "assign_ident" /\ last.value = Null
  /\ \E c \in DOMAIN objects :
       /\ EnvGet(pre.env, Len(pre.env), last.name) = <<Id(c)>>
       /\ \E p \in DOMAIN objects :
            /\ p # c
            /\ <<p, "a">> \in Referrers(objects, c)
            /\ SchemaMandatory(types, objects[p].typeName, "a")

\* ------------------------------------------------------------- C22

\* C22: `e.f` and `e.f = v` where e evaluates to a value that is not the
\* identifier of an object (a plain number, a boolean, a string or null) abort
\* with an Error, and change nothing.
C22_AccessOnNonObjectThrows ==
  (last.op \in {"access", "assign"} /\ ~IsRef(last.base)) =>
    /\ error # NoError
    /\ objects = pre.objects
    /\ incoming = pre.incoming


\* ------------------------------------------------------------- C23

\* C23: after `arr[i] = v` on a live array, the back-edge (arr, i) is recorded
\* on v when v is the identifier of a live object, and is no longer recorded
\* on the slot's previous referent when that is another object; and after a
\* delete_cascade no slot of a live array holds the identifier of an object
\* the cascade destroyed.
C23_IndexedAssignmentMaintainsReverseIndex ==
  /\ (last.op = "index_assign" /\ error = NoError) =>
       LET key == ParentKey(last.id, last.name)
           prev == MapGet(pre.objects[last.id].fields, last.name)
       IN /\ (IsRef(last.value) /\ last.value.n \in DOMAIN objects)
               => Occurrences(incoming, last.value.n, key) = 1
          /\ (prev # Undefined /\ IsRef(prev) /\ prev # last.value)
               => key \notin BackEdges(incoming, prev.n)
  /\ last.op = "delete_cascade" =>
       \A o \in DOMAIN objects : \A f \in DOMAIN objects[o].fields :
         (objects[o].typeName = ArrayType /\ IsRef(objects[o].fields[f]))
           => objects[o].fields[f].n \notin Destroyed


\* ------------------------------------------------------------- C24

\* C24: evaluating `new T { ... }` or `{ ... }` yields the identifier of a
\* live object and deletes no object, whatever the field initialisers.
C24_ConstructorNeverCascades ==
  last.op = "object_literal" =>
    /\ last.id \in DOMAIN objects
    /\ DOMAIN pre.objects \subseteq DOMAIN objects


\* ------------------------------------------------------------- C25

\* the index whose key is name
IndexOf(name) == CHOOSE i \in 0..MaxIndex : ToString(i) = name

\* C25: an indexed write at index i to an array of length n stores the value
\* in slot i, sets length to i+1 when i >= n and leaves it unchanged when
\* i < n, creates no other slot and changes no other slot; an indexed read of
\* a slot that was never written yields null.
C25_IndexedWriteExtendsLength ==
  /\ (last.op = "index_assign" /\ error = NoError) =>
       LET before == pre.objects[last.id].fields
           after == objects[last.id].fields
           n == ToNumber(before["length"])
           i == IndexOf(last.name)
       IN /\ after["length"] = Num(IF i >= n THEN i + 1 ELSE n)
          /\ ToNumber(after["length"]) >= n
          /\ DOMAIN after = DOMAIN before \cup {last.name}
          /\ after[last.name] = last.value
          /\ \A f \in DOMAIN before \ {last.name, "length"} : after[f] = before[f]
  /\ (last.op = "index_read" /\ error = NoError
        /\ last.name \notin DOMAIN objects[last.id].fields) => last.value = Null

\* C25's case: a read of a slot that was never written and lies below length,
\* which only a write past the end of the array leaves behind
C25_Witness ==
  /\ last.op = "index_read" /\ error = NoError
  /\ last.name \notin DOMAIN objects[last.id].fields
  /\ IndexOf(last.name) < ToNumber(objects[last.id].fields["length"])
  /\ last.value = Null

\* ------------------------------------------------------------- C26

\* C26: delete_cascade(root) leaves the same forward map and the same reverse
\* index whatever the order in which the back-edges of an object are
\* enumerated and whatever the order in which objects are taken from the
\* work stack.
C26_CascadeOrderIndependent ==
  last.op = "delete_cascade" =>
    AnyOrderCascade(pre.objects, pre.incoming, pre.types, <<last.id>>, {})
      = {[objects |-> objects, incoming |-> ReverseIndexSets(incoming)]}

\* C26's case: the root had back-edges from two parents and the cascade
\* destroyed both of them with it, so that there was more than one order
C26_Witness ==
  /\ last.op = "delete_cascade"
  /\ last.id \in DOMAIN pre.incoming
  /\ Cardinality({SplitKey(k).pid : k \in BackEdges(pre.incoming, last.id)} \ {last.id}) >= 2
  /\ Cardinality(Destroyed) >= 3


\* ------------------------------------------------------------- C27

\* C27: after delete_cascade every live object has the type name it had, and
\* each of its fields either has the value it had before the call or held
\* the identifier of an object this call destroyed and is now null; when the
\* root had no back-edge, no field of a surviving object changed.
C27_CascadeFrame ==
  last.op = "delete_cascade" =>
    /\ \A o \in DOMAIN objects :
         /\ o \in DOMAIN pre.objects
         /\ objects[o].typeName = pre.objects[o].typeName
         /\ DOMAIN objects[o].fields = DOMAIN pre.objects[o].fields
         /\ \A f \in DOMAIN objects[o].fields :
              \/ objects[o].fields[f] = pre.objects[o].fields[f]
              \/ /\ objects[o].fields[f] = Null
                 /\ IsRef(pre.objects[o].fields[f])
                 /\ pre.objects[o].fields[f].n \in Destroyed
    /\ BackEdges(pre.incoming, last.id) = {} =>
         \A o \in DOMAIN objects : objects[o] = pre.objects[o]


\* ------------------------------------------------------------- C28

\* C28: storing the plain number k in a field while an object with the
\* identifier k is live records no back-edge for k, and a delete_cascade
\* leaves every field of a survivor that held a plain number as it was.
C28_PlainNumberIsNoReference ==
  /\ (last.op = "set_field" /\ last.id \in DOMAIN objects /\ last.value.tag = "num")
       => ParentKey(last.id, last.name) \notin BackEdges(incoming, last.value.n)
  /\ last.op = "delete_cascade" =>
       \A o \in DOMAIN objects \cap DOMAIN pre.objects :
         \A f \in DOMAIN pre.objects[o].fields :
           pre.objects[o].fields[f].tag = "num"
             => MapGet(objects[o].fields, f) = pre.objects[o].fields[f]


\* ------------------------------------------------------------- C29

\* C29: the reverse index has no entry keyed by a dead identifier and no
\* back-edge (p, f) whose parent p is dead.
C29_NoLeakedReversePointer ==
  \A c \in DOMAIN incoming :
    /\ c \in DOMAIN objects
    /\ \A key \in BackEdges(incoming, c) : SplitKey(key).pid \in DOMAIN objects

====
